---- MODULE Spec2Model ----
(***************************************************************************)
(* Search/navigation functions of microxml (mxml-search.c):                *)
(* mxmlWalkNext, mxmlWalkPrev, mxmlFindElement, mxmlFindElementText and    *)
(* mxmlFindPath, over a document tree of mxml_node_t nodes linked by       *)
(* parent / child / last_child / prev / next.                              *)
(*                                                                         *)
(* C strings are sequences of one-character strings; a NULL string pointer *)
(* is NULLSTR.  Node pointers are node numbers; the NULL node pointer is   *)
(* NULL.  The tree is never modified by the functions modelled here.       *)
(***************************************************************************)
EXTENDS Integers, Sequences, FiniteSets, TLC

VARIABLES nodes, pc, call, cur, hist, ret, hops

vars == <<nodes, pc, call, cur, hist, ret, hops>>

(***************************************************************************)
(* Bounds                                                                  *)
(***************************************************************************)
\* nodes of the trees walked by the walker specification
MaxWalkNodes == 5
\* nodes of the trees searched by the finder specification
MaxFindNodes == 4
\* nodes of the trees resolved by the path specification
MaxPathNodes == 4
\* characters of a path string
MaxPathLen == 5

(***************************************************************************)
(* Program constants                                                       *)
(***************************************************************************)
NULL == 0
NULLSTR == <<"NULL">>

MXML_DESCEND == 1
MXML_NO_DESCEND == 0
MXML_DESCEND_FIRST == -1

MXML_ELEMENT == "MXML_ELEMENT"
MXML_TEXT == "MXML_TEXT"
MXML_OPAQUE == "MXML_OPAQUE"

Descends == {MXML_DESCEND, MXML_NO_DESCEND, MXML_DESCEND_FIRST}

\* sizeof(element) in mxmlFindPath
ElementSize == 256

(***************************************************************************)
(* The document tree.  A tree of N nodes is given by the parent of each    *)
(* node 2..N (node 1 is the root); the children of a node are kept in      *)
(* increasing node number, which is the order they were added in.          *)
(***************************************************************************)
Min(S) == CHOOSE x \in S : \A y \in S : x <= y
Max(S) == CHOOSE x \in S : \A y \in S : x >= y

ParentVectors(N) ==
    { par \in [1..N -> 0..N] : /\ par[1] = NULL
                               /\ \A i \in 2..N : par[i] \in 1..(i - 1) }

ChildrenOf(par, p) == { c \in DOMAIN par : par[c] = p }

\* an element's value: name and attributes (name/value pairs)
ElementValue(name, attrs) ==
    [type |-> MXML_ELEMENT, name |-> name, attrs |-> attrs, string |-> NULLSTR]

\* a text or opaque node's value: its string
LeafValue(type, string) ==
    [type |-> type, name |-> NULLSTR, attrs |-> <<>>, string |-> string]

\* the linked nodes of the tree with parent vector par and node values val
MakeTree(par, val) ==
    [ n \in DOMAIN par |->
        LET kids == ChildrenOf(par, n)
            sibs == IF par[n] = NULL THEN {n} ELSE ChildrenOf(par, par[n])
            after == { s \in sibs : s > n }
            before == { s \in sibs : s < n }
        IN  [ parent     |-> par[n],
              child      |-> IF kids = {} THEN NULL ELSE Min(kids),
              last_child |-> IF kids = {} THEN NULL ELSE Max(kids),
              next       |-> IF after = {} THEN NULL ELSE Min(after),
              prev       |-> IF before = {} THEN NULL ELSE Max(before),
              type       |-> val[n].type,
              name       |-> val[n].name,
              attrs      |-> val[n].attrs,
              string     |-> val[n].string ] ]

\* only elements have children
ValuesFor(par, Values) ==
    { val \in [DOMAIN par -> Values] :
        \A n \in DOMAIN par :
            ChildrenOf(par, n) # {} => val[n].type = MXML_ELEMENT }

Node == DOMAIN nodes
NodeOrNull == Node \cup {NULL}

(***************************************************************************)
(* mxmlWalkNext                                                            *)
(***************************************************************************)
RECURSIVE WalkNextAscendPastTop(_, _)
\* a variant of WalkNextAscend that does not stop at top
WalkNextAscendPastTop(node, top) ==
    IF nodes[node].next = NULL
    THEN IF nodes[node].parent = NULL
         THEN NULL
         ELSE WalkNextAscendPastTop(nodes[node].parent, top)
    ELSE nodes[node].next

RECURSIVE WalkNextAscendRestart(_, _)
\* a variant of WalkNextAscend that goes back to top when it runs out of
\* parents
WalkNextAscendRestart(node, top) ==
    IF nodes[node].next = NULL
    THEN IF nodes[node].parent = top THEN NULL
         ELSE IF nodes[node].parent = NULL THEN top
         ELSE WalkNextAscendRestart(nodes[node].parent, top)
    ELSE nodes[node].next

RECURSIVE WalkNextAscend(_, _)
\* the loop of lines 209-215, entered with node already moved to its parent
WalkNextAscend(node, top) ==
    IF nodes[node].next = NULL
    THEN IF nodes[node].parent = top \/ nodes[node].parent = NULL
         THEN NULL
         ELSE WalkNextAscend(nodes[node].parent, top)
    ELSE nodes[node].next

\* a variant of mxmlWalkNext that goes to the first child whatever descend is
WalkNextIgnoreDescend(node, top, descend) ==
    IF node = NULL THEN NULL
    ELSE IF nodes[node].child # NULL THEN nodes[node].child
    ELSE IF node = top THEN NULL
    ELSE IF nodes[node].next # NULL THEN nodes[node].next
    ELSE IF nodes[node].parent # NULL /\ nodes[node].parent # top
         THEN WalkNextAscend(nodes[node].parent, top)
    ELSE NULL

\* a variant of mxmlWalkNext without the test node == top
WalkNextNoTopTest(node, top, descend) ==
    IF node = NULL THEN NULL
    ELSE IF nodes[node].child # NULL /\ descend # 0 THEN nodes[node].child
    ELSE IF nodes[node].next # NULL THEN nodes[node].next
    ELSE IF nodes[node].parent # NULL /\ nodes[node].parent # top
         THEN WalkNextAscend(nodes[node].parent, top)
    ELSE NULL

\* a variant of mxmlWalkNext that never climbs to an ancestor's sibling
WalkNextNoAscend(node, top, descend) ==
    IF node = NULL THEN NULL
    ELSE IF nodes[node].child # NULL /\ descend # 0 THEN nodes[node].child
    ELSE IF node = top THEN NULL
    ELSE nodes[node].next

mxmlWalkNext(node, top, descend) ==
    IF node = NULL THEN NULL
    ELSE IF nodes[node].child # NULL /\ descend # 0 THEN nodes[node].child
    ELSE IF node = top THEN NULL
    ELSE IF nodes[node].next # NULL THEN nodes[node].next
    ELSE IF nodes[node].parent # NULL /\ nodes[node].parent # top
         THEN WalkNextAscend(nodes[node].parent, top)
    ELSE NULL

(***************************************************************************)
(* mxmlWalkPrev                                                            *)
(***************************************************************************)
RECURSIVE DeepestLastChild(_)
\* the loop of lines 243-246
DeepestLastChild(node) ==
    IF nodes[node].last_child # NULL
    THEN DeepestLastChild(nodes[node].last_child)
    ELSE node

\* a variant of mxmlWalkPrev without the test node == top
WalkPrevNoTopTest(node, top, descend) ==
    IF node = NULL THEN NULL
    ELSE IF nodes[node].prev # NULL
         THEN IF nodes[nodes[node].prev].last_child # NULL /\ descend # 0
              THEN DeepestLastChild(nodes[nodes[node].prev].last_child)
              ELSE nodes[node].prev
    ELSE IF nodes[node].parent # top THEN nodes[node].parent
    ELSE NULL

\* a variant of mxmlWalkPrev that returns the parent of a first child also
\* when the parent is top
WalkPrevToTop(node, top, descend) ==
    IF node = NULL \/ node = top THEN NULL
    ELSE IF nodes[node].prev # NULL
         THEN IF nodes[nodes[node].prev].last_child # NULL /\ descend # 0
              THEN DeepestLastChild(nodes[nodes[node].prev].last_child)
              ELSE nodes[node].prev
    ELSE nodes[node].parent

\* a variant of mxmlWalkPrev that takes one last_child and not the deepest
WalkPrevOneLevel(node, top, descend) ==
    IF node = NULL \/ node = top THEN NULL
    ELSE IF nodes[node].prev # NULL
         THEN IF nodes[nodes[node].prev].last_child # NULL /\ descend # 0
              THEN nodes[nodes[node].prev].last_child
              ELSE nodes[node].prev
    ELSE IF nodes[node].parent # top THEN nodes[node].parent
    ELSE NULL

mxmlWalkPrev(node, top, descend) ==
    IF node = NULL \/ node = top THEN NULL
    ELSE IF nodes[node].prev # NULL
         THEN IF nodes[nodes[node].prev].last_child # NULL /\ descend # 0
              THEN DeepestLastChild(nodes[nodes[node].prev].last_child)
              ELSE nodes[node].prev
    ELSE IF nodes[node].parent # top THEN nodes[node].parent
    ELSE NULL

(***************************************************************************)
(* mxmlElementGetAttrValue (mxml-attr.c): the value of the first attribute *)
(* of the element with the given name, NULL if there is none.              *)
(***************************************************************************)
RECURSIVE AttrLookup(_, _)
AttrLookup(attrs, name) ==
    IF attrs = <<>> THEN NULLSTR
    ELSE IF Head(attrs).name = name THEN Head(attrs).value
    ELSE AttrLookup(Tail(attrs), name)

mxmlElementGetAttrValue(node, name) ==
    IF node = NULL \/ nodes[node].type # MXML_ELEMENT \/ name = NULLSTR
    THEN NULLSTR
    ELSE AttrLookup(nodes[node].attrs, name)

(***************************************************************************)
(* mxmlFindElement                                                         *)
(***************************************************************************)
\* a variant of ElementMatches that does not compare the attribute's value
ElementMatchesAnyValue(node, name, attr, value) ==
    /\ nodes[node].type = MXML_ELEMENT
    /\ nodes[node].name # NULLSTR
    /\ (name = NULLSTR \/ nodes[node].name = name)
    /\ \/ attr = NULLSTR
       \/ mxmlElementGetAttrValue(node, attr) # NULLSTR

\* the test of lines 59-71: the node is what the search is looking for
ElementMatches(node, name, attr, value) ==
    /\ nodes[node].type = MXML_ELEMENT
    /\ nodes[node].name # NULLSTR
    /\ (name = NULLSTR \/ nodes[node].name = name)
    /\ \/ attr = NULLSTR
       \/ LET temp == mxmlElementGetAttrValue(node, attr)
          IN  temp # NULLSTR /\ (value = NULLSTR \/ value = temp)

\* a variant of FindAdvance that walks the whole subtree for every descend
FindAdvanceAlwaysWalk(node, top, descend) ==
    mxmlWalkNext(node, top, MXML_DESCEND)

\* a variant of FindAdvance that only ever steps to the next sibling
FindAdvanceSiblingOnly(node, top, descend) ==
    nodes[node].next

\* a variant of FindAdvance that, without descend-always, goes on from the
\* last sibling to the next sibling of an ancestor, top or not
FindAdvanceClimb(node, top, descend) ==
    IF descend = MXML_DESCEND
    THEN mxmlWalkNext(node, top, MXML_DESCEND)
    ELSE mxmlWalkNext(node, NULL, MXML_NO_DESCEND)

\* the advance of lines 73-76
FindAdvance(node, top, descend) ==
    IF descend = MXML_DESCEND
    THEN mxmlWalkNext(node, top, MXML_DESCEND)
    ELSE nodes[node].next

RECURSIVE FindElementLoop(_, _, _, _, _, _)
\* the loop of lines 57-79
FindElementLoop(node, top, name, attr, value, descend) ==
    IF node = NULL THEN NULL
    ELSE IF ElementMatches(node, name, attr, value) THEN node
    ELSE FindElementLoop(FindAdvance(node, top, descend),
                         top, name, attr, value, descend)

\* a variant of mxmlFindElement that accepts a value without an attribute
FindElementNoValueCheck(node, top, name, attr, value, descend) ==
    IF node = NULL \/ top = NULL
    THEN NULL
    ELSE FindElementLoop(mxmlWalkNext(node, top, descend),
                         top, name, attr, value, descend)

mxmlFindElement(node, top, name, attr, value, descend) ==
    IF node = NULL \/ top = NULL \/ (attr = NULLSTR /\ value # NULLSTR)
    THEN NULL
    ELSE FindElementLoop(mxmlWalkNext(node, top, descend),
                         top, name, attr, value, descend)

(***************************************************************************)
(* mxmlFindElementText                                                     *)
(***************************************************************************)
\* a variant of TextMatches that accepts a string that starts with the text
TextMatchesPrefix(node, text) ==
    /\ nodes[node].type = MXML_TEXT
    /\ nodes[node].string # NULLSTR
    /\ \/ text = NULLSTR
       \/ /\ Len(text) <= Len(nodes[node].string)
          /\ SubSeq(nodes[node].string, 1, Len(text)) = text

\* the test of lines 106-108
TextMatches(node, text) ==
    /\ nodes[node].type = MXML_TEXT
    /\ nodes[node].string # NULLSTR
    /\ (text = NULLSTR \/ nodes[node].string = text)

RECURSIVE FindElementTextLoop(_, _, _, _)
\* the loop of lines 104-118; the advance of lines 113-116 is that of 73-76
FindElementTextLoop(node, top, text, descend) ==
    IF node = NULL THEN NULL
    ELSE IF TextMatches(node, text) THEN node
    ELSE FindElementTextLoop(FindAdvance(node, top, descend),
                             top, text, descend)

mxmlFindElementText(node, top, text, descend) ==
    IF node = NULL \/ top = NULL \/ text = NULLSTR
    THEN NULL
    ELSE FindElementTextLoop(mxmlWalkNext(node, top, descend),
                             top, text, descend)

(***************************************************************************)
(* mxmlFindPath.  The path pointer is the part of the string not yet       *)
(* parsed.  The loop records one hop per call of mxmlFindElement: the node *)
(* searched from, the element name, the descend mode and the node found.   *)
(***************************************************************************)
\* strncmp(path, "*/", 2) == 0
HasWildcardMarker(path) ==
    Len(path) >= 2 /\ path[1] = "*" /\ path[2] = "/"

\* pathsep - path: strchr(path, '/'), or the end of the string
SepOffset(path) ==
    IF \E i \in 1..Len(path) : path[i] = "/"
    THEN Min({ i \in 1..Len(path) : path[i] = "/" }) - 1
    ELSE Len(path)

\* a variant of PathResult that returns the first non-Element child, wherever
\* it is among the children
RECURSIVE FirstLeafFrom(_)
FirstLeafFrom(node) ==
    IF node = NULL THEN NULL
    ELSE IF nodes[node].type # MXML_ELEMENT THEN node
    ELSE FirstLeafFrom(nodes[node].next)

PathResultAnyLeaf(node) ==
    IF FirstLeafFrom(nodes[node].child) # NULL
    THEN FirstLeafFrom(nodes[node].child)
    ELSE node

\* lines 177-180
PathResult(node) ==
    IF nodes[node].child # NULL /\ nodes[nodes[node].child].type # MXML_ELEMENT
    THEN nodes[node].child
    ELSE node

\* a variant of SegmentDescend that searches the whole subtree for every segment
SegmentDescendAlways(wild) == MXML_DESCEND

\* lines 150-156: the descend mode of the segment, wild if "*/" precedes it
SegmentDescend(wild) ==
    IF wild THEN MXML_DESCEND ELSE MXML_DESCEND_FIRST

\* a variant of HopFailed that returns what the earlier segments resolved to
HopFailedPartial(node, done) ==
    [ret |-> PathResult(node), last |-> node, hops |-> done]

\* lines 172-174: no element for the segment below node; done are the hops made
HopFailed(node, done) ==
    [ret |-> NULL, last |-> NULL, hops |-> done]

\* a variant of PathAfter that does not step over the slash
PathAfterAtSlash(p, n) ==
    IF n < Len(p) THEN SubSeq(p, n + 1, Len(p)) ELSE <<>>

\* lines 167-170: the path after the segment of n bytes at the start of p,
\* past the slash that ends the segment if there is one
PathAfter(p, n) ==
    IF n < Len(p) THEN SubSeq(p, n + 2, Len(p)) ELSE <<>>

\* a variant of SegmentRejected whose length limit is one byte too high
SegmentRejectedAboveSize(n) == n = 0 \/ n > ElementSize

\* line 161: the segment of n bytes is empty or does not fit element[]
SegmentRejected(n) == n = 0 \/ n >= ElementSize

RECURSIVE FindPathLoopBacktrack(_, _, _)
RECURSIVE TryMatches(_, _, _, _, _, _)
\* a variant of FindPathLoop that, when the rest of the path does not resolve
\* below the element found for a segment, goes on with the next element that
\* matches the segment
FindPathLoopBacktrack(node, path, done) ==
    IF path = <<>>
    THEN [ret |-> PathResult(node), last |-> node, hops |-> done]
    ELSE
      LET wild    == HasWildcardMarker(path)
          p       == IF wild THEN SubSeq(path, 3, Len(path)) ELSE path
          descend == SegmentDescend(wild)
          n       == SepOffset(p)
      IN  IF SegmentRejected(n)
          THEN [ret |-> NULL, last |-> NULL, hops |-> done]
          ELSE
            LET element == SubSeq(p, 1, n)
                rest    == PathAfter(p, n)
                found   == mxmlFindElement(node, node, element,
                                           NULLSTR, NULLSTR, descend)
            IN  TryMatches(found, node, element, descend, rest, done)

TryMatches(found, node, element, descend, rest, done) ==
    LET hop == [from |-> node, element |-> element,
                descend |-> descend, node |-> found]
    IN  IF found = NULL
        THEN HopFailed(node, Append(done, hop))
        ELSE
          LET run   == FindPathLoopBacktrack(found, rest, Append(done, hop))
              other == mxmlFindElement(found, node, element, NULLSTR, NULLSTR,
                                       IF descend = MXML_DESCEND
                                       THEN MXML_DESCEND ELSE MXML_NO_DESCEND)
          IN  IF run.ret # NULL \/ other = NULL
              THEN run
              ELSE TryMatches(other, node, element, descend, rest, done)

RECURSIVE FindPathLoop(_, _, _)
\* the loop of lines 148-180; done are the hops made so far
FindPathLoop(node, path, done) ==
    IF path = <<>>
    THEN [ret |-> PathResult(node), last |-> node, hops |-> done]
    ELSE
      LET wild    == HasWildcardMarker(path)
          p       == IF wild THEN SubSeq(path, 3, Len(path)) ELSE path
          descend == SegmentDescend(wild)
          n       == SepOffset(p)
      IN  IF SegmentRejected(n)
          THEN [ret |-> NULL, last |-> NULL, hops |-> done]
          ELSE
            LET element == SubSeq(p, 1, n)
                rest    == PathAfter(p, n)
                found   == mxmlFindElement(node, node, element,
                                           NULLSTR, NULLSTR, descend)
                hop     == [from |-> node, element |-> element,
                            descend |-> descend, node |-> found]
            IN  IF found = NULL
                THEN HopFailed(node, Append(done, hop))
                ELSE FindPathLoop(found, rest, Append(done, hop))

\* the whole call: the result, the node the last segment resolved to, the hops
FindPathRun(top, path) ==
    IF top = NULL \/ path = NULLSTR \/ path = <<>>
    THEN [ret |-> NULL, last |-> NULL, hops |-> <<>>]
    ELSE FindPathLoop(top, path, <<>>)

mxmlFindPath(top, path) == FindPathRun(top, path).ret

(***************************************************************************)
(* Callers.  A caller makes one call, or a loop of calls that passes the   *)
(* node returned by one call as the start node of the next.                *)
(*   pc   "idle" before the first call, "loop" while the last call         *)
(*        returned a node, "done" once a call returned NULL, "back" after  *)
(*        the walk was turned around                                       *)
(*   call the arguments of the caller                                      *)
(*   cur  the node passed to the next call of the loop                     *)
(*   hist the nodes returned so far, in order                              *)
(*   ret  the value returned by the last call                              *)
(*   hops the hops of the last mxmlFindPath call                           *)
(* A caller of mxmlFindPath that calls it again with a slash added to the  *)
(* path has pc "again" after the second call; hist is then the value the   *)
(* first call returned, and ret, cur and hops are those of the second.     *)
(***************************************************************************)
NoCall ==
    [fn |-> "none", node |-> NULL, top |-> NULL, descend |-> MXML_DESCEND,
     descend2 |-> MXML_DESCEND, name |-> NULLSTR, attr |-> NULLSTR,
     value |-> NULLSTR, path |-> NULLSTR, text |-> NULLSTR]

InitTree(N, Values) ==
    /\ \E par \in ParentVectors(N) :
         \E val \in ValuesFor(par, Values) : nodes = MakeTree(par, val)
    /\ pc = "idle"
    /\ call = NoCall
    /\ cur = NULL
    /\ hist = <<>>
    /\ ret = NULL
    /\ hops = <<>>

\* ---- the walker's callers ----
WalkValues == { ElementValue(<<"a">>, <<>>) }

InitWalk == InitTree(MaxWalkNodes, WalkValues)

Walk(fn, node, top, descend) ==
    IF fn = "WalkNext" THEN mxmlWalkNext(node, top, descend)
                       ELSE mxmlWalkPrev(node, top, descend)

Opposite(fn) == IF fn = "WalkNext" THEN "WalkPrev" ELSE "WalkNext"

\* a caller starts a walk at node, bounded by top
WalkBegin ==
    /\ pc = "idle"
    /\ \E fn \in {"WalkNext", "WalkPrev"}, node \in NodeOrNull,
          top \in NodeOrNull, descend \in Descends :
         /\ call' = [NoCall EXCEPT !.fn = fn, !.node = node, !.top = top,
                                   !.descend = descend, !.descend2 = descend]
         /\ cur' = node
    /\ pc' = "loop"
    /\ UNCHANGED <<nodes, hist, ret, hops>>

\* node = mxmlWalkNext(node, top, descend), or mxmlWalkPrev
WalkStep ==
    /\ pc = "loop"
    /\ call.fn \in {"WalkNext", "WalkPrev"}
    /\ Len(hist) <= Cardinality(Node)
    /\ \E r \in { Walk(call.fn, cur, call.top, call.descend) } :
           /\ ret' = r
           /\ cur' = r
           /\ hist' = IF r = NULL THEN hist ELSE Append(hist, r)
           /\ pc' = IF r = NULL THEN "done" ELSE "loop"
    /\ UNCHANGED <<nodes, call, hops>>

\* after at least one step, the caller walks the other way from what it got
WalkBack ==
    /\ pc \in {"loop", "done"}
    /\ call.fn \in {"WalkNext", "WalkPrev"}
    /\ pc = "loop" => hist # <<>>
    /\ ret' = Walk(Opposite(call.fn), cur, call.top, call.descend)
    /\ pc' = "back"
    /\ UNCHANGED <<nodes, call, cur, hist, hops>>

NextWalk == WalkBegin \/ WalkStep \/ WalkBack

SpecWalk == InitWalk /\ [][NextWalk]_vars

\* ---- the finder's callers ----
FindValues ==
    { ElementValue(<<"a">>, << [name |-> <<"i", "d">>, value |-> <<"1">>] >>),
      ElementValue(<<"b">>, << [name |-> <<"k">>, value |-> <<"1">>],
                               [name |-> <<"i", "d">>, value |-> <<"2">>] >>),
      LeafValue(MXML_TEXT, <<"x">>) }

InitFind == InitTree(MaxFindNodes, FindValues)

\* the element name, attribute name and attribute value a caller looks for
FindNames == { NULLSTR, <<"a">> }
FindAttrs == { NULLSTR, <<"i", "d">>, <<"k">> }
FindAttrValues == { NULLSTR, <<"1">> }

\* the descend arguments of a caller's first call and of its later calls:
\* MXML_DESCEND throughout, MXML_DESCEND_FIRST then MXML_NO_DESCEND (the
\* use documented at lines 36-38), or MXML_NO_DESCEND throughout
FindDescends ==
    { <<MXML_DESCEND, MXML_DESCEND>>,
      <<MXML_DESCEND_FIRST, MXML_NO_DESCEND>>,
      <<MXML_NO_DESCEND, MXML_NO_DESCEND>> }

\* a caller starts a search at node, bounded by top
FindBegin ==
    /\ pc = "idle"
    /\ \E node \in NodeOrNull, top \in NodeOrNull, name \in FindNames,
          attr \in FindAttrs, value \in FindAttrValues, d \in FindDescends :
         /\ call' = [NoCall EXCEPT !.fn = "FindElement", !.node = node,
                                   !.top = top, !.name = name, !.attr = attr,
                                   !.value = value, !.descend = d[1],
                                   !.descend2 = d[2]]
         /\ cur' = node
    /\ pc' = "loop"
    /\ UNCHANGED <<nodes, hist, ret, hops>>

\* node = mxmlFindElement(node, top, name, attr, value, descend)
FindStep ==
    /\ pc = "loop"
    /\ call.fn = "FindElement"
    /\ Len(hist) <= Cardinality(Node)
    /\ \E r \in { mxmlFindElement(cur, call.top, call.name, call.attr,
                                  call.value,
                                  IF hist = <<>> THEN call.descend
                                                 ELSE call.descend2) } :
           /\ ret' = r
           /\ cur' = r
           /\ hist' = IF r = NULL THEN hist ELSE Append(hist, r)
           /\ pc' = IF r = NULL THEN "done" ELSE "loop"
    /\ UNCHANGED <<nodes, call, hops>>

NextFind == FindBegin \/ FindStep

SpecFind == InitFind /\ [][NextFind]_vars

\* ---- the path resolver's callers ----
PathValues ==
    { ElementValue(<<"a">>, <<>>),
      ElementValue(<<"b">>, <<>>),
      LeafValue(MXML_TEXT, <<"x">>) }

PathChars == { "a", "/", "*" }

\* the strings of at most n characters
RECURSIVE Strings(_)
Strings(n) ==
    IF n = 0 THEN { <<>> }
    ELSE LET shorter == Strings(n - 1)
         IN  shorter \cup { Append(s, c) : s \in shorter, c \in PathChars }

\* a document of up to MaxPathNodes nodes
InitPath == \E n \in 1..MaxPathNodes : InitTree(n, PathValues)

\* the paths a caller passes with top; a NULL top returns before path is read
PathsFor(top) ==
    IF top = NULL THEN Strings(1) \cup {NULLSTR}
    ELSE Strings(MaxPathLen) \cup {NULLSTR}

\* mxmlFindPath(top, path), top the document's root or NULL; the hops after
\* the first search from the inner node the hop before resolved to
FindPathCall ==
    /\ pc = "idle"
    /\ \E top \in {1, NULL} : \E path \in PathsFor(top) :
         \E run \in { FindPathRun(top, path) } :
             /\ call' = [NoCall EXCEPT !.fn = "FindPath", !.top = top,
                                       !.path = path]
             /\ ret' = run.ret
             /\ cur' = run.last
             /\ hops' = run.hops
    /\ pc' = "done"
    /\ UNCHANGED <<nodes, hist>>

NextPath == FindPathCall

SpecPath == InitPath /\ [][NextPath]_vars

\* ---- callers that pass long path segments ----
\* nodes of the trees resolved with long segments
MaxLongNodes == 3

\* a name of k bytes
LongName(k) == [i \in 1..k |-> "a"]

\* the segment lengths around sizeof(element)
LongLens == (ElementSize - 2)..(ElementSize + 1)

LongValues ==
    { ElementValue(LongName(ElementSize - 1), <<>>),
      ElementValue(LongName(ElementSize), <<>>),
      LeafValue(MXML_TEXT, <<"x">>) }

InitLong == \E n \in 1..MaxLongNodes : InitTree(n, LongValues)

\* a long segment alone, after the marker, before a final slash, and as the
\* second and the first of two segments
LongPaths ==
    UNION { { LongName(k),
              <<"*", "/">> \o LongName(k),
              LongName(k) \o <<"/">>,
              LongName(ElementSize - 1) \o <<"/">> \o LongName(k),
              LongName(k) \o <<"/">> \o LongName(ElementSize - 1) }
            : k \in LongLens }

\* mxmlFindPath(top, path) with a long segment in path, top the document's root
FindLongPathCall ==
    /\ pc = "idle"
    /\ \E path \in LongPaths :
         \E run \in { FindPathRun(1, path) } :
             /\ call' = [NoCall EXCEPT !.fn = "FindPath", !.top = 1,
                                       !.path = path]
             /\ ret' = run.ret
             /\ cur' = run.last
             /\ hops' = run.hops
    /\ pc' = "done"
    /\ UNCHANGED <<nodes, hist>>

NextLong == FindLongPathCall

SpecLong == InitLong /\ [][NextLong]_vars

\* ---- callers that make one call, on any pair of nodes ----
\* nodes of the trees of the single calls
MaxSearchNodes == 4

SearchValues ==
    { ElementValue(<<"a">>, <<>>),
      LeafValue(MXML_TEXT, <<"x">>),
      LeafValue(MXML_TEXT, <<"x", "y">>),
      LeafValue(MXML_OPAQUE, <<"x">>) }

InitSearch == InitTree(MaxSearchNodes, SearchValues)

\* the element names and the texts a caller looks for
SearchNames == { NULLSTR, <<"a">> }
SearchTexts == { NULLSTR, <<"x">> }

\* mxmlWalkNext(node, top, descend) or mxmlWalkPrev(node, top, descend)
WalkCall ==
    /\ pc = "idle"
    /\ \E fn \in {"WalkNext", "WalkPrev"}, node \in NodeOrNull,
          top \in NodeOrNull, descend \in Descends :
         /\ call' = [NoCall EXCEPT !.fn = fn, !.node = node, !.top = top,
                                   !.descend = descend, !.descend2 = descend]
         /\ cur' = node
         /\ ret' = Walk(fn, node, top, descend)
    /\ pc' = "done"
    /\ UNCHANGED <<nodes, hist, hops>>

\* mxmlFindElement(node, top, name, NULL, NULL, descend)
FindCall ==
    /\ pc = "idle"
    /\ \E node \in NodeOrNull, top \in NodeOrNull, name \in SearchNames,
          descend \in Descends :
         /\ call' = [NoCall EXCEPT !.fn = "FindElement", !.node = node,
                                   !.top = top, !.name = name,
                                   !.descend = descend, !.descend2 = descend]
         /\ cur' = node
         /\ ret' = mxmlFindElement(node, top, name, NULLSTR, NULLSTR, descend)
    /\ pc' = "done"
    /\ UNCHANGED <<nodes, hist, hops>>

\* mxmlFindElementText(node, top, text, descend)
FindTextCall ==
    /\ pc = "idle"
    /\ \E node \in NodeOrNull, top \in NodeOrNull, text \in SearchTexts,
          descend \in Descends :
         /\ call' = [NoCall EXCEPT !.fn = "FindElementText", !.node = node,
                                   !.top = top, !.text = text,
                                   !.descend = descend, !.descend2 = descend]
         /\ cur' = node
         /\ ret' = mxmlFindElementText(node, top, text, descend)
    /\ pc' = "done"
    /\ UNCHANGED <<nodes, hist, hops>>

NextSearch == WalkCall \/ FindCall \/ FindTextCall

SpecSearch == InitSearch /\ [][NextSearch]_vars

\* ---- callers that resolve a path below any node ----
\* nodes of the trees
MaxResolveNodes == 4
\* characters of a path string
MaxResolveLen == 3

\* an element may have any name, also the name "*"
ResolveValues ==
    { ElementValue(<<"a">>, <<>>),
      ElementValue(<<"*">>, <<>>),
      LeafValue(MXML_TEXT, <<"x">>) }

InitResolve == \E n \in 1..MaxResolveNodes : InitTree(n, ResolveValues)

\* mxmlFindPath(top, path), top any node of the document
ResolveCall ==
    /\ pc = "idle"
    /\ \E top \in Node : \E path \in Strings(MaxResolveLen) :
         \E run \in { FindPathRun(top, path) } :
             /\ call' = [NoCall EXCEPT !.fn = "FindPath", !.top = top,
                                       !.path = path]
             /\ ret' = run.ret
             /\ cur' = run.last
             /\ hops' = run.hops
    /\ pc' = "done"
    /\ UNCHANGED <<nodes, hist>>

\* after mxmlFindPath(top, p), p not empty and not ending in a slash, the
\* caller calls mxmlFindPath(top, p followed by "/")
ResolveSlashCall ==
    /\ pc = "done"
    /\ call.fn = "FindPath"
    /\ call.path # <<>>
    /\ call.path[Len(call.path)] # "/"
    /\ \E run \in { FindPathRun(call.top, Append(call.path, "/")) } :
         /\ ret' = run.ret
         /\ cur' = run.last
         /\ hops' = run.hops
    /\ hist' = <<ret>>
    /\ pc' = "again"
    /\ UNCHANGED <<nodes, call>>

NextResolve == ResolveCall \/ ResolveSlashCall

SpecResolve == InitResolve /\ [][NextResolve]_vars

(***************************************************************************)
(* Document order, defined from the parent links and the order in which    *)
(* the children were added alone (not from child / next / last_child).     *)
(***************************************************************************)
RECURSIVE SortedSeq(_)
SortedSeq(S) == IF S = {} THEN <<>> ELSE <<Min(S)>> \o SortedSeq(S \ {Min(S)})

Range(s) == { s[i] : i \in DOMAIN s }

NoDuplicates(s) == \A i, j \in DOMAIN s : s[i] = s[j] => i = j

IsPrefix(s, t) == Len(s) <= Len(t) /\ s = SubSeq(t, 1, Len(s))

\* the children of p, first to last
DocChildren(p) == SortedSeq({ c \in Node : nodes[c].parent = p })

RECURSIVE Ancestors(_)
Ancestors(n) ==
    IF nodes[n].parent = NULL THEN {}
    ELSE {nodes[n].parent} \cup Ancestors(nodes[n].parent)

\* the nodes strictly inside the subtree rooted at top
StrictDescendants(top) == { n \in Node : top \in Ancestors(n) }

RECURSIVE Preorder(_)
RECURSIVE PreorderAll(_)
\* n, then the subtrees of its children, left to right
Preorder(n) == <<n>> \o PreorderAll(DocChildren(n))
PreorderAll(s) ==
    IF s = <<>> THEN <<>> ELSE Preorder(Head(s)) \o PreorderAll(Tail(s))

\* the part of s after its element n (n occurs once in s)
SeqAfter(s, n) ==
    LET i == CHOOSE k \in DOMAIN s : s[k] = n IN SubSeq(s, i + 1, Len(s))

\* the descendants of top that follow node in pre-order (all, for node = top)
PreorderAfter(top, node) == SeqAfter(Preorder(top), node)

(***************************************************************************)
(* Walker claims                                                           *)
(***************************************************************************)
\* the caller walks forward with descend-always from a node strictly inside
\* top's subtree
InsideWalk ==
    /\ pc # "idle"
    /\ call.fn = "WalkNext"
    /\ call.descend = MXML_DESCEND
    /\ call.top # NULL
    /\ call.node \in StrictDescendants(call.top)

\* the nodes the walk has been at: its start node, then the nodes returned
Visited == <<call.node>> \o hist

\* the node the last WalkStep was called with
LastFrom ==
    IF cur = NULL THEN Visited[Len(Visited)] ELSE Visited[Len(Visited) - 1]

\* C1: boundary containment.  In a walk n1 = WalkNext(n, top, descend-always),
\* n2 = WalkNext(n1, ...), ... from a node n strictly inside top's subtree,
\* every call returns none or a strict descendant of top: never top, an
\* ancestor of top or a node outside top's subtree.
C1_BoundaryContainment ==
    InsideWalk =>
        /\ \A i \in DOMAIN hist : hist[i] \in StrictDescendants(call.top)
        /\ pc \in {"loop", "done"} =>
               ret \in StrictDescendants(call.top) \cup {NULL}

\* C1 witness: the walk ended by climbing from a node that is not a child of
\* top, below a top that has a next sibling to escape to
C1_Witness ==
    /\ InsideWalk
    /\ pc = "done"
    /\ hist # <<>>
    /\ nodes[call.top].next # NULL
    /\ nodes[hist[Len(hist)]].parent # call.top

\* C2 as stated: when such a walk returns none, the nodes it returned are
\* every descendant of top, each exactly once.  Stated here in its weakest
\* reading, which the claim implies: no node is returned twice, and no
\* descendant of top other than the start node n is missed.
C2_Original ==
    (InsideWalk /\ pc = "done") =>
        /\ NoDuplicates(hist)
        /\ StrictDescendants(call.top) \subseteq Range(hist) \cup {call.node}

\* C2 amended: the walk returns none after finitely many calls, and the nodes
\* returned before that are the descendants of top that follow n in
\* pre-order, each exactly once and in that order (the descendants that
\* precede n, and n itself, are not returned).
C2_ExhaustiveAfterStart ==
    InsideWalk =>
        /\ IsPrefix(hist, PreorderAfter(call.top, call.node))
        /\ NoDuplicates(hist)
        /\ pc = "loop" => Len(hist) < Cardinality(Node)
        /\ pc = "done" => hist = PreorderAfter(call.top, call.node)

\* C2 witness: a finished walk that returned at least two nodes and did not
\* return a descendant of top that precedes its start node
C2_Witness ==
    /\ InsideWalk
    /\ pc = "done"
    /\ Len(hist) >= 2
    /\ Range(Visited) # StrictDescendants(call.top)

\* C3 as stated: for every n # top under top,
\* WalkPrev(WalkNext(n, top, descend-always), top, descend-always) = n.
C3_Original ==
    (InsideWalk /\ pc = "back") => ret = LastFrom

\* C3 amended: for every n # top under top for which
\* m = WalkNext(n, top, descend-always) is a node, WalkPrev(m, top,
\* descend-always) = n; when WalkNext returns none, so does WalkPrev.
C3_WalkInverse ==
    (InsideWalk /\ pc = "back") =>
        IF cur # NULL THEN ret = LastFrom ELSE ret = NULL

\* C3 witness: WalkNext climbed to an ancestor's sibling whose previous
\* sibling has grandchildren, and WalkPrev came back to the start
C3_Witness ==
    /\ InsideWalk
    /\ pc = "back"
    /\ cur # NULL
    /\ ret = LastFrom
    /\ nodes[cur].prev # NULL
    /\ nodes[cur].prev # LastFrom
    /\ nodes[nodes[cur].prev].last_child # LastFrom

(***************************************************************************)
(* Finder claims                                                           *)
(***************************************************************************)
\* node n is an Element with the name, the attribute and the attribute value
\* looked for (each only if given)
Wanted(n, name, attr, value) ==
    /\ nodes[n].type = MXML_ELEMENT
    /\ name # NULLSTR => nodes[n].name = name
    /\ attr # NULLSTR =>
         \E i \in DOMAIN nodes[n].attrs :
            /\ nodes[n].attrs[i].name = attr
            /\ value # NULLSTR => nodes[n].attrs[i].value = value

RECURSIVE WantedOf(_)
\* the nodes of s the caller looks for, in the order of s
WantedOf(s) ==
    IF s = <<>> THEN <<>>
    ELSE IF Wanted(Head(s), call.name, call.attr, call.value)
         THEN <<Head(s)>> \o WantedOf(Tail(s))
         ELSE WantedOf(Tail(s))

FirstOrNull(s) == IF s = <<>> THEN NULL ELSE Head(s)

\* the caller has made at least one mxmlFindElement call
Searched ==
    /\ call.fn = "FindElement"
    /\ pc = "done" \/ hist # <<>>

ValidFind ==
    /\ call.node # NULL
    /\ call.top # NULL
    /\ ~(call.attr = NULLSTR /\ call.value # NULLSTR)

\* every call of the caller passes descend-always
DescendAlways == call.descend = MXML_DESCEND /\ call.descend2 = MXML_DESCEND

\* the caller's calls are FindElement(p, p, ..., descend-first), then
\* FindElement(r, p, ..., no-descend)
ChildrenIdiom ==
    /\ call.node = call.top
    /\ call.descend = MXML_DESCEND_FIRST
    /\ call.descend2 = MXML_NO_DESCEND

\* C4: FindElement(node, top, name, attr, value, descend-always), node inside
\* top's subtree and the arguments valid, returns the first node after node in
\* the pre-order of top's subtree that is an Element with that name, attribute
\* and attribute value (each only if given), and none only if there is no such
\* node.
C4_FindFirstMatch ==
    (/\ Searched /\ ValidFind /\ DescendAlways
     /\ call.node \in StrictDescendants(call.top) \cup {call.top}) =>
        ret = FirstOrNull(WantedOf(PreorderAfter(call.top, LastFrom)))

\* C4 witness: the call passed over a non-Element node and over an Element
\* that has the attribute with another value, and returned a later Element
C4_Witness ==
    /\ Searched /\ ValidFind /\ DescendAlways
    /\ call.node \in StrictDescendants(call.top) \cup {call.top}
    /\ call.value # NULLSTR
    /\ ret # NULL
    /\ LET after == PreorderAfter(call.top, LastFrom)
           skipped == { n \in Range(after) : ret \in Range(SeqAfter(after, n)) }
       IN  /\ \E n \in skipped : nodes[n].type # MXML_ELEMENT
           /\ \E n \in skipped :
                 /\ Wanted(n, call.name, call.attr, NULLSTR)
                 /\ ~Wanted(n, call.name, call.attr, call.value)

\* C5: r0 = FindElement(top, top, ..., descend-always), r(i+1) =
\* FindElement(r(i), top, ..., descend-always) until none: the nodes returned
\* are the wanted elements strictly inside top's subtree, each once, in
\* document order, and the sequence ends.
C5_ResumeEnumerates ==
    (/\ call.fn = "FindElement" /\ pc # "idle" /\ ValidFind /\ DescendAlways
     /\ call.node = call.top) =>
        /\ IsPrefix(hist, WantedOf(PreorderAfter(call.top, call.top)))
        /\ pc = "done" => hist = WantedOf(PreorderAfter(call.top, call.top))

\* C5 witness: the enumeration ended after returning two elements and
\* skipping a node between or before them
C5_Witness ==
    /\ call.fn = "FindElement" /\ pc = "done" /\ ValidFind /\ DescendAlways
    /\ call.node = call.top
    /\ Len(hist) >= 2
    /\ Len(hist) < Cardinality(StrictDescendants(call.top))

\* C6: r0 = FindElement(p, p, ..., descend-first), r(i+1) =
\* FindElement(r(i), p, ..., no-descend) until none: the nodes returned are
\* the wanted direct children of p, each once, in sibling order; never a
\* grandchild or deeper descendant of p, nor p.
C6_DirectChildren ==
    (/\ call.fn = "FindElement" /\ pc # "idle" /\ ValidFind /\ ChildrenIdiom) =>
        /\ IsPrefix(hist, WantedOf(DocChildren(call.top)))
        /\ pc = "done" => hist = WantedOf(DocChildren(call.top))

\* C6 witness: the enumeration ended after returning two children of p, and
\* p has a wanted grandchild, which was not returned
C6_Witness ==
    /\ call.fn = "FindElement" /\ pc = "done" /\ ValidFind /\ ChildrenIdiom
    /\ Len(hist) >= 2
    /\ \E g \in StrictDescendants(call.top) :
          /\ nodes[g].parent # call.top
          /\ Wanted(g, call.name, call.attr, call.value)

\* C7: FindElement returns none, whatever the tree and the descend policy,
\* when node is absent, when top is absent, or when value is given and attr
\* is not.
C7_InvalidArguments ==
    (Searched /\ ~ValidFind) => (ret = NULL /\ hist = <<>>)

\* C7 witness: a value without an attribute, on a tree where the next node
\* after the start node is an Element with the name looked for
C7_Witness ==
    /\ Searched
    /\ call.node # NULL /\ call.top # NULL
    /\ call.attr = NULLSTR /\ call.value # NULLSTR
    /\ call.node \in StrictDescendants(call.top) \cup {call.top}
    /\ LET after == PreorderAfter(call.top, call.node)
       IN  /\ after # <<>>
           /\ Wanted(Head(after), call.name, NULLSTR, NULLSTR)
    /\ ret = NULL

(***************************************************************************)
(* Path resolver claims                                                    *)
(***************************************************************************)
\* the parts of s between its slashes ("a//b" has the parts a, empty, b)
Split(s) ==
    LET cuts == <<0>> \o SortedSeq({ i \in DOMAIN s : s[i] = "/" })
                      \o <<Len(s) + 1>>
    IN  [ k \in 1..(Len(cuts) - 1) |-> SubSeq(s, cuts[k] + 1, cuts[k + 1] - 1) ]

RECURSIVE SegmentsFrom(_, _)
\* the segments of the parts from the i-th on: a part "*" that a slash follows
\* is the wildcard marker of the segment after it
SegmentsFrom(parts, i) ==
    IF i > Len(parts) THEN <<>>
    ELSE IF parts[i] = <<"*">> /\ i < Len(parts)
         THEN << [name |-> parts[i + 1], wild |-> TRUE] >>
              \o SegmentsFrom(parts, i + 2)
         ELSE << [name |-> parts[i], wild |-> FALSE] >>
              \o SegmentsFrom(parts, i + 1)

Segments(path) == SegmentsFrom(Split(path), 1)

\* the i-th segment is empty: nothing stands where a name must, which is the
\* case at a leading slash, at the second of two slashes and after a marker
\* that ends the path; the empty rest after a final slash is no segment
EmptySegment(segs, i) ==
    /\ segs[i].name = <<>>
    /\ ~(i = Len(segs) /\ i > 1 /\ ~segs[i].wild)

RECURSIVE NamedOf(_, _)
\* the Elements of s with the name, in the order of s
NamedOf(s, name) ==
    IF s = <<>> THEN <<>>
    ELSE IF nodes[Head(s)].type = MXML_ELEMENT /\ nodes[Head(s)].name = name
         THEN <<Head(s)>> \o NamedOf(Tail(s), name)
         ELSE NamedOf(Tail(s), name)

PathCalled == call.fn = "FindPath" /\ pc = "done"

\* C8: at each hop from the current resolved node c, a segment without the
\* marker "*/" before it resolves to the first direct child of c that is an
\* Element with that name, never to a deeper descendant; a segment with the
\* marker resolves to the first Element with that name in the pre-order of
\* c's subtree, c excluded; the marker is for the segment right after it only.
C8_SegmentModes ==
    (PathCalled /\ hops # <<>>) =>
        LET segs == Segments(call.path)
        IN  /\ Len(hops) <= Len(segs)
            /\ \A i \in DOMAIN hops :
                 LET c == IF i = 1 THEN call.top ELSE hops[i - 1].node
                 IN  /\ hops[i].from = c
                     /\ hops[i].element = segs[i].name
                     /\ hops[i].node =
                          IF segs[i].wild
                          THEN FirstOrNull(NamedOf(PreorderAfter(c, c),
                                                   segs[i].name))
                          ELSE FirstOrNull(NamedOf(DocChildren(c),
                                                   segs[i].name))

\* C8 witness: a path of a plain segment and a wildcard segment ("a/*/a"):
\* the first resolved to a child of top, the second to a node that is not a
\* child of the first
C8_Witness ==
    /\ PathCalled
    /\ Len(hops) = 2
    /\ ~Segments(call.path)[1].wild
    /\ Segments(call.path)[2].wild
    /\ hops[2].node # NULL
    /\ nodes[hops[2].node].parent # hops[1].node
    /\ ret # NULL

\* C9: when the last segment resolves to node n, FindPath returns n's first
\* child if n has one and it is not an Element, and n otherwise; only the
\* first child is looked at.
C9_ResultRule ==
    (PathCalled /\ cur # NULL) =>
        LET kids == DocChildren(cur)
        IN  ret = IF kids # <<>> /\ nodes[kids[1]].type # MXML_ELEMENT
                  THEN kids[1]
                  ELSE cur

\* C9 witness: the last segment resolved to a node whose first child is an
\* Element and whose later child is not, and that node was returned
C9_Witness ==
    /\ PathCalled
    /\ cur # NULL
    /\ ret = cur
    /\ \E k \in Range(DocChildren(cur)) : nodes[k].type # MXML_ELEMENT

\* C10: FindPath returns none when top is absent, when path is absent or
\* empty, when a segment is empty, or when a hop finds no element; after a
\* hop that found none no further segment is searched and no partly resolved
\* node is returned.
C10_AllOrNothing ==
    PathCalled =>
        /\ \/ (ret = NULL /\ cur = NULL)
           \/ /\ call.top # NULL
              /\ call.path # NULLSTR
              /\ call.path # <<>>
              /\ \A i \in DOMAIN hops : hops[i].node # NULL
              /\ LET segs == Segments(call.path)
                 IN  \A i \in DOMAIN segs : ~EmptySegment(segs, i)
        /\ \A i \in DOMAIN hops : hops[i].node = NULL => i = Len(hops)

\* C10 witness: the first segment resolved, the second found no element, and
\* a third segment was left unsearched
C10_Witness ==
    /\ PathCalled
    /\ Len(hops) = 2
    /\ hops[1].node # NULL
    /\ hops[2].node = NULL
    /\ Len(Segments(call.path)) = 3
    /\ ret = NULL

\* the number of segments of the path: the empty rest after a final slash is
\* no segment
SegmentCount(segs) ==
    IF Len(segs) > 1 /\ segs[Len(segs)].name = <<>> /\ ~segs[Len(segs)].wild
    THEN Len(segs) - 1
    ELSE Len(segs)

\* C11: a path segment of 256 bytes or more makes FindPath return none
\* without a search of the tree for that segment, also when an element of
\* that name exists; a segment of 255 bytes or fewer is not rejected for its
\* length: it is searched for, unless an earlier segment ended the call.
C11_SegmentLengthGuard ==
    PathCalled =>
        LET segs == Segments(call.path)
            long == { i \in DOMAIN segs : Len(segs[i].name) >= 256 }
        IN  /\ long # {} => (ret = NULL /\ Len(hops) < Min(long))
            /\ \A i \in DOMAIN hops : Len(hops[i].element) <= 255
            /\ (/\ long = {}
                /\ \A i \in DOMAIN segs : ~EmptySegment(segs, i)) =>
                   /\ hops # <<>>
                   /\ \/ Len(hops) = SegmentCount(segs)
                      \/ hops[Len(hops)].node = NULL

\* C11 witness: the path is a 255-byte segment and a 256-byte segment; the
\* first was searched for and found, the second was not searched for, and the
\* element found has a child of that 256-byte name
C11_Witness ==
    /\ PathCalled
    /\ call.path = LongName(255) \o <<"/">> \o LongName(256)
    /\ Len(hops) = 1
    /\ hops[1].node # NULL
    /\ Len(hops[1].element) = 255
    /\ \E c \in Node : /\ nodes[c].parent = hops[1].node
                       /\ nodes[c].type = MXML_ELEMENT
                       /\ nodes[c].name = LongName(256)
    /\ ret = NULL

(***************************************************************************)
(* Text search claims                                                      *)
(***************************************************************************)
RECURSIVE TextOf(_, _)
\* the Text nodes of s whose string is text, in the order of s
TextOf(s, text) ==
    IF s = <<>> THEN <<>>
    ELSE IF nodes[Head(s)].type = MXML_TEXT /\ nodes[Head(s)].string = text
         THEN <<Head(s)>> \o TextOf(Tail(s), text)
         ELSE TextOf(Tail(s), text)

TextCalled == call.fn = "FindElementText" /\ pc = "done"

\* the start node of the call is top or inside top's subtree
StartInside ==
    /\ call.node # NULL
    /\ call.top # NULL
    /\ call.node \in StrictDescendants(call.top) \cup {call.top}

\* C12: FindElementText(node, top, text, descend) returns none if node, top
\* or text is absent; a node it returns is of kind Text and its string equals
\* text in full; under descend-always, with node inside top's subtree, it is
\* the first such node after node in the pre-order of top's subtree, or none
\* if there is no such node.
C12_TextSearchExact ==
    TextCalled =>
        /\ (call.node = NULL \/ call.top = NULL \/ call.text = NULLSTR) =>
               ret = NULL
        /\ ret # NULL =>
               /\ nodes[ret].type = MXML_TEXT
               /\ nodes[ret].string = call.text
        /\ (StartInside /\ call.text # NULLSTR /\ call.descend = MXML_DESCEND) =>
               ret = FirstOrNull(TextOf(PreorderAfter(call.top, call.node),
                                        call.text))

\* C12 witness: a descend-always call passed over a Text node whose string
\* starts with the text and over a leaf of another kind whose string is the
\* text, and returned a later node
C12_Witness ==
    /\ TextCalled
    /\ StartInside
    /\ call.descend = MXML_DESCEND
    /\ ret # NULL
    /\ LET after == PreorderAfter(call.top, call.node)
           skipped == { n \in Range(after) : ret \in Range(SeqAfter(after, n)) }
       IN  /\ \E n \in skipped :
                 /\ nodes[n].type = MXML_TEXT
                 /\ nodes[n].string # call.text
                 /\ IsPrefix(call.text, nodes[n].string)
           /\ \E n \in skipped :
                 /\ nodes[n].type = MXML_OPAQUE
                 /\ nodes[n].string = call.text

(***************************************************************************)
(* Further finder claims                                                   *)
(***************************************************************************)
\* every call of the caller passes no-descend
NoDescendLoop ==
    /\ call.fn = "FindElement"
    /\ call.descend = MXML_NO_DESCEND
    /\ call.descend2 = MXML_NO_DESCEND

\* C13 as stated: r0 = FindElement(p, top, ..., no-descend), r(i+1) =
\* FindElement(r(i), top, ..., no-descend) until none returns the wanted
\* direct children of p, each once, and nothing else (top is p or an ancestor
\* of p).
C13_Original ==
    (NoDescendLoop /\ pc = "done" /\ ValidFind /\ StartInside) =>
        hist = WantedOf(DocChildren(call.node))

\* C13 amended: with no-descend on every call no child of p is returned, nor
\* any other descendant of p.  With top = p the first call returns none.
\* With top an ancestor of p each call returns a wanted element that follows
\* the node it was called with in the pre-order of top's subtree and is
\* outside that node's subtree (a later sibling of it or of one of its
\* ancestors below top).
C13_NoDescendSkipsChildren ==
    (NoDescendLoop /\ pc # "idle" /\ ValidFind /\ StartInside) =>
        /\ call.node = call.top => hist = <<>>
        /\ \A i \in DOMAIN hist :
              /\ Wanted(hist[i], call.name, call.attr, call.value)
              /\ hist[i] \in Range(PreorderAfter(call.top, Visited[i]))
              /\ hist[i] \notin StrictDescendants(Visited[i])
              /\ hist[i] \notin StrictDescendants(call.node)

\* C13 witness: p has a wanted child, the calls returned a node, which is not
\* that child, and ended
C13_Witness ==
    /\ NoDescendLoop /\ pc = "done" /\ ValidFind /\ StartInside
    /\ WantedOf(DocChildren(call.node)) # <<>>
    /\ hist # <<>>

(***************************************************************************)
(* Further walker claims                                                   *)
(***************************************************************************)
\* the caller walks from top itself
WalkFromTop(fn) ==
    /\ pc # "idle"
    /\ call.fn = fn
    /\ call.top # NULL
    /\ call.node = call.top

\* C14: the nodes returned by n0 = top, n(i+1) = WalkNext(n(i), top,
\* descend-always) until none are the proper descendants of top in pre-order
\* (parent before children, children first to last); none is returned when
\* top has no child, whatever siblings and ancestors top has.
C14_PreorderFromTop ==
    (WalkFromTop("WalkNext") /\ call.descend = MXML_DESCEND) =>
        /\ IsPrefix(hist, PreorderAfter(call.top, call.top))
        /\ pc = "done" => hist = PreorderAfter(call.top, call.top)
        /\ DocChildren(call.top) = <<>> => hist = <<>>

\* C14 witness: a finished walk from a top that has a parent and a next
\* sibling, through a child and a grandchild of top
C14_Witness ==
    /\ WalkFromTop("WalkNext") /\ call.descend = MXML_DESCEND
    /\ pc = "done"
    /\ nodes[call.top].parent # NULL
    /\ nodes[call.top].next # NULL
    /\ \E i \in DOMAIN hist : nodes[hist[i]].parent # call.top

Reverse(s) == [ i \in 1..Len(s) |-> s[Len(s) + 1 - i] ]

\* the caller walks backward with descend-always from the last node of top's
\* subtree in pre-order
ReverseWalk ==
    /\ pc # "idle"
    /\ call.fn = "WalkPrev"
    /\ call.descend = MXML_DESCEND
    /\ call.top # NULL
    /\ DocChildren(call.top) # <<>>
    /\ call.node = Preorder(call.top)[Len(Preorder(call.top))]

\* C17: starting from the last node of top's subtree in pre-order, the
\* sequence n0 = that node, n(i+1) = WalkPrev(n(i), top, descend-always)
\* until none is the proper descendants of top in reverse pre-order, each
\* once; top is never returned, and WalkPrev of top's first child is none.
C17_ReverseWalk ==
    ReverseWalk =>
        /\ IsPrefix(Visited, Reverse(PreorderAfter(call.top, call.top)))
        /\ call.top \notin Range(hist)
        /\ pc = "done" =>
              /\ Visited = Reverse(PreorderAfter(call.top, call.top))
              /\ Visited[Len(Visited)] = Head(DocChildren(call.top))

\* C17 witness: a finished backward walk under a top that has a parent, with
\* a step from a node to the last node of its previous sibling's subtree,
\* which is not that sibling
C17_Witness ==
    /\ ReverseWalk
    /\ pc = "done"
    /\ nodes[call.top].parent # NULL
    /\ \E i \in DOMAIN hist :
          /\ nodes[hist[i]].parent # nodes[Visited[i]].parent
          /\ hist[i] # nodes[Visited[i]].parent

(***************************************************************************)
(* Claims on the single calls                                              *)
(***************************************************************************)
\* one call of FindElement or FindElementText was made
FinderCalled ==
    /\ pc = "done"
    /\ call.fn \in {"FindElement", "FindElementText"}

\* what the first mxmlWalkNext of the call returned
FirstCandidate == mxmlWalkNext(call.node, call.top, call.descend)

\* C15: for node inside top's subtree (node = top allowed), a node returned
\* by FindElement or FindElementText is a strict descendant of top, under
\* descend-always, descend-first and no-descend alike; top, its siblings and
\* its ancestors are never returned.
C15_FinderContainment ==
    (FinderCalled /\ StartInside) =>
        ret \in StrictDescendants(call.top) \cup {NULL}

\* C15 witness: a FindElementText call without descend-always went from its
\* first candidate along the next links to the last sibling and returned
\* none, while a later sibling of top is a Text node with the text
C15_Witness ==
    /\ FinderCalled /\ StartInside
    /\ call.fn = "FindElementText"
    /\ call.descend # MXML_DESCEND
    /\ FirstCandidate # NULL
    /\ ret = NULL
    /\ \E n \in Node :
          /\ n > call.top
          /\ nodes[n].parent # NULL
          /\ nodes[n].parent = nodes[call.top].parent
          /\ TextOf(<<n>>, call.text) # <<>>

\* one call of WalkNext or WalkPrev was made with node = top
WalkedAtTop ==
    /\ pc = "done"
    /\ call.fn \in {"WalkNext", "WalkPrev"}
    /\ call.top # NULL
    /\ call.node = call.top

\* C16: with node = top neither walk goes to a sibling or an ancestor of
\* top: WalkPrev(top, top, d) is none for every d; WalkNext(top, top, d) is
\* none when d is no-descend or top has no child, and top's first child
\* otherwise.
C16_BoundaryEquality ==
    WalkedAtTop =>
        IF call.fn = "WalkPrev" THEN ret = NULL
        ELSE IF call.descend = MXML_NO_DESCEND \/ DocChildren(call.top) = <<>>
             THEN ret = NULL
             ELSE ret = Head(DocChildren(call.top))

\* C16 witness: WalkPrev was called at a top that has a parent and a previous
\* sibling with a child, and returned none
C16_Witness ==
    /\ WalkedAtTop
    /\ call.fn = "WalkPrev"
    /\ nodes[call.top].parent # NULL
    /\ \E n \in Node : /\ n < call.top
                       /\ nodes[n].parent = nodes[call.top].parent
                       /\ DocChildren(n) # <<>>
    /\ ret = NULL

\* the place of node n in the pre-order of the whole document
DocPos(n) == CHOOSE k \in DOMAIN Preorder(1) : Preorder(1)[k] = n

\* one call was made on a pair of live nodes
LiveCall ==
    /\ pc = "done"
    /\ call.node # NULL
    /\ call.top # NULL

\* C18: on every tree, for every pair of live nodes (node, top), also when
\* node is outside top's subtree, and every descend value, WalkNext,
\* WalkPrev, FindElement and FindElementText return none or a node of the
\* tree.  They terminate: the node returned is after node in the document's
\* pre-order (before node, for WalkPrev), so the ascent of WalkNext and the
\* search loops, which go on from the node returned, reach none in at most
\* as many steps as the tree has nodes.  (A link of an absent node has no
\* value here, so that every call has a value shows that none is read.)
C18_TotalOnAnyPair ==
    LiveCall =>
        /\ ret \in NodeOrNull
        /\ ret # NULL =>
              IF call.fn = "WalkPrev" THEN DocPos(ret) < DocPos(call.node)
                                      ELSE DocPos(ret) > DocPos(call.node)

\* C18 witness: WalkNext was called on a node that is not in top's subtree
\* and has no node after it in the document; the ascent went up to the root
\* and the call returned none
C18_Witness ==
    /\ LiveCall
    /\ call.fn = "WalkNext"
    /\ call.node \notin StrictDescendants(call.top) \cup {call.top}
    /\ call.top \notin StrictDescendants(call.node)
    /\ Cardinality(Ancestors(call.node)) >= 2
    /\ DocPos(call.node) = Cardinality(Node)
    /\ ret = NULL

(***************************************************************************)
(* Further path resolver claims                                            *)
(***************************************************************************)
\* the elements a segment can resolve to from node c, in document order
Candidates(c, seg) ==
    IF seg.wild THEN NamedOf(PreorderAfter(c, c), seg.name)
                ELSE NamedOf(DocChildren(c), seg.name)

RECURSIVE GreedyResolve(_, _, _)
\* the node the segments from the i-th on resolve to from c when each takes
\* its first candidate; NULL if a segment has none below the one taken
GreedyResolve(c, segs, i) ==
    IF i > SegmentCount(segs) THEN c
    ELSE LET m == FirstOrNull(Candidates(c, segs[i]))
         IN  IF m = NULL THEN NULL ELSE GreedyResolve(m, segs, i + 1)

RECURSIVE AnyResolve(_, _, _)
\* the nodes the segments from the i-th on resolve to from c when each may
\* take any of its candidates
AnyResolve(c, segs, i) ==
    IF i > SegmentCount(segs) THEN {c}
    ELSE UNION { AnyResolve(m, segs, i + 1) : m \in Range(Candidates(c, segs[i])) }

\* a FindPath call with a path that has a segment and no empty segment
WellFormedPathCalled ==
    /\ PathCalled
    /\ call.top # NULL
    /\ call.path # NULLSTR
    /\ call.path # <<>>
    /\ LET segs == Segments(call.path)
       IN  \A i \in DOMAIN segs : ~EmptySegment(segs, i)

SlashCalled == call.fn = "FindPath" /\ pc = "again"

\* the last segment of p is a lone "*" with no marker before it
EndsInStar(p) ==
    LET segs == Segments(p)
    IN  segs[Len(segs)].name = <<"*">> /\ ~segs[Len(segs)].wild

\* C20 as stated: for every non-empty path p that does not end in a slash,
\* FindPath(top, p followed by "/") returns what FindPath(top, p) returns.
C20_Original ==
    SlashCalled => ret = hist[1]

\* C20 amended: it does unless the last segment of p is a lone "*" with no
\* marker before it.  Then p followed by "/" ends in the marker "*/" with an
\* empty segment after it, and FindPath returns none for it, whatever
\* FindPath(top, p), which searches for an element named "*", returns.
C20_TrailingSlash ==
    SlashCalled =>
        IF EndsInStar(call.path) THEN ret = NULL ELSE ret = hist[1]

\* C20 witness: a path of two segments resolved to the same node with and
\* without the slash at its end
C20_Witness ==
    /\ SlashCalled
    /\ ~EndsInStar(call.path)
    /\ Len(hops) = 2
    /\ ret # NULL
    /\ ret = hist[1]

====
